---- MODULE Spec2Model ----
(***************************************************************************)
(* cjsonpp 0.3: the JSONObject wrapper over cJSON.                         *)
(*                                                                         *)
(* The heap holds cJSON structs (node), Holder objects (holder) and        *)
(* ObjectSet objects (oset); the caller's JSONObject variables are var.    *)
(* shared_ptr reference counts are derived from what refers to a Holder or *)
(* an ObjectSet: the caller's variables and the members of live sets.      *)
(***************************************************************************)
EXTENDS Integers, Sequences, FiniteSets, TLC

\* ---------------------------------------------------------------- bounds
MaxNodes == 8
MaxVars == 2
MaxIndex == 1
MaxHolders == 5
\* the heap of the programs that need no more: structs, Holders and ObjectSets
SmallNodes == 3
SmallHolders == 4
MediumNodes == 5
MediumHolders == 4

\* ---------------------------------------------------------- cJSON's tags
cJSON_False == 0
cJSON_True == 1
cJSON_NULL == 2
cJSON_Number == 3
cJSON_String == 4
cJSON_Array == 5
cJSON_Object == 6
cJSON_IsReference == 256

NULL == 0
Nodes == 1..MaxNodes
Holders == 1..MaxHolders
Sets == 1..MaxHolders
Vars == 1..MaxVars
Names == {"a", "b"}
Indexes == (0 - 1)..MaxIndex

\* room is the memory the program runs in: how many structs, and how many
\* Holders and ObjectSets, the heap has room for
VARIABLES node, holder, oset, var, res, ub, halted, room

vars == <<node, holder, oset, var, res, ub, halted, room>>

\* ------------------------------------------------------------ the heap
\* a cJSON struct; from is not a field of it: it records, for a reference struct,
\* the struct create_reference copied
NoNode == [st |-> "none", type |-> 0, child |-> NULL, next |-> NULL, prev |-> NULL,
           string |-> "", valuestring |-> NULL, chars |-> "", valueint |-> 0, valuedouble |-> 0,
           from |-> NULL]
NoHolder == [live |-> FALSE, o |-> NULL, own_ |-> FALSE]
NoSet == [live |-> FALSE, elems |-> <<>>]
NoVar == [obj_ |-> NULL, refs_ |-> NULL]

\* JSONType, in the order of the enum
JSONType == <<"Bool", "Null", "String", "Number", "Array", "Object">>

\* the type tag without the reference flag: type & 0xff
Low8(t) == t % 256

Max(a, b) == IF a > b THEN a ELSE b

\* the state the operations work on, with the undefined-behaviour events
\* (reads of freed structs, second frees) the operation ran into
Here == [node |-> node, holder |-> holder, oset |-> oset, var |-> var, ev |-> {}]

Touch(S, ids) ==
  IF \E n \in ids : n # NULL /\ S.node[n].st # "live"
  THEN [S EXCEPT !.ev = @ \cup {"use_after_free"}]
  ELSE S

\* malloc: an address no live struct occupies and no pointer still holds
FreeNodes(S) == {n \in Nodes : S.node[n].st = "none"}
NewNode(S) == CHOOSE n \in FreeNodes(S) : \A m \in FreeNodes(S) : n <= m
FreeHolders(S) == {h \in Holders : ~S.holder[h].live}
NewHolder(S) == CHOOSE h \in FreeHolders(S) : \A m \in FreeHolders(S) : h <= m
FreeSets(S) == {s \in Sets : ~S.oset[s].live}
NewSet(S) == CHOOSE s \in FreeSets(S) : \A m \in FreeSets(S) : s <= m

\* ---------------------------------------------------------------- cJSON
\* the structs linked from c through next
RECURSIVE Chain(_, _, _)
Chain(nd, c, fuel) ==
  IF c = NULL \/ fuel = 0 THEN <<>>
  ELSE <<c>> \o Chain(nd, nd[c].next, fuel - 1)

Children(nd, c) == Chain(nd, nd[c].child, MaxNodes)

SeqToSet(s) == {s[i] : i \in 1..Len(s)}

\* cJSON_CreateObject, cJSON_CreateArray, cJSON_CreateNull, cJSON_CreateTrue,
\* cJSON_CreateFalse, cJSON_CreateNumber and cJSON_CreateString: a string
\* struct owns its buffer (valuestring names the struct the buffer dies with)
cJSON_Create(S, n, sc) ==
  [S EXCEPT !.node[n] = [NoNode EXCEPT !.st = "live", !.type = sc.t, !.valueint = sc.i,
                                        !.valuedouble = sc.i, !.chars = sc.s,
                                        !.valuestring = IF sc.t = cJSON_String THEN n ELSE NULL]]

cJSON_GetArraySize(nd, array) == Len(Children(nd, array))

\* the struct at position item, the first one for a negative item, or NULL
cJSON_GetArrayItem(nd, array, item) ==
  LET cs == Children(nd, array)
      k == Max(item, 0) + 1
  IN IF k <= Len(cs) THEN cs[k] ELSE NULL

\* the structs cJSON_GetArrayItem reads on the way
ReadByGetArrayItem(nd, array, item) ==
  LET cs == Children(nd, array)
  IN {array} \cup {cs[i] : i \in 1..(IF Max(item, 0) < Len(cs) THEN Max(item, 0) ELSE Len(cs))}

\* the position of the first child called name, or 0
NameIndex(nd, object, name) ==
  LET cs == Children(nd, object)
      hits == {i \in 1..Len(cs) : nd[cs[i]].string = name}
  IN IF hits = {} THEN 0 ELSE CHOOSE i \in hits : \A j \in hits : i <= j

cJSON_GetObjectItem(nd, object, name) ==
  LET i == NameIndex(nd, object, name)
  IN IF i = 0 THEN NULL ELSE Children(nd, object)[i]

ReadByGetObjectItem(nd, object, name) ==
  LET cs == Children(nd, object)
      i == NameIndex(nd, object, name)
  IN {object} \cup {cs[j] : j \in 1..(IF i = 0 THEN Len(cs) ELSE i)}

\* a copy of item's struct with the reference flag, unlinked and unnamed
create_reference(S, ref, item) ==
  [Touch(S, {item}) EXCEPT
     !.node[ref] = [S.node[item] EXCEPT !.st = "live", !.string = "",
                                        !.type = Low8(@) + cJSON_IsReference,
                                        !.next = NULL, !.prev = NULL, !.from = item]]

cJSON_AddItemToArray(S, array, item) ==
  LET cs == Children(S.node, array)
      S1 == Touch(S, {array} \cup SeqToSet(cs))
  IN IF cs = <<>>
     THEN [S1 EXCEPT !.node[array].child = item]
     ELSE [S1 EXCEPT !.node[cs[Len(cs)]].next = item, !.node[item].prev = cs[Len(cs)]]

cJSON_AddItemToObject(S, object, name, item) ==
  cJSON_AddItemToArray([S EXCEPT !.node[item].string = name], object, item)

cJSON_AddItemReferenceToArray(S, ref, array, item) ==
  cJSON_AddItemToArray(create_reference(S, ref, item), array, ref)

cJSON_AddItemReferenceToObject(S, ref, object, name, item) ==
  cJSON_AddItemToObject(create_reference(S, ref, item), object, name, ref)

\* unlinks the struct c of array's list
Unlink(S, array, c) ==
  LET n == S.node[c]
      S1 == Touch(S, {c})
      S2 == IF n.prev # NULL THEN [S1 EXCEPT !.node[n.prev].next = n.next] ELSE S1
      S3 == IF n.next # NULL THEN [S2 EXCEPT !.node[n.next].prev = n.prev] ELSE S2
      S4 == IF S3.node[array].child = c THEN [S3 EXCEPT !.node[array].child = n.next] ELSE S3
  IN [S4 EXCEPT !.node[c].next = NULL, !.node[c].prev = NULL]

cJSON_DetachItemFromArray(S, array, which) ==
  LET c == cJSON_GetArrayItem(S.node, array, which)
      S1 == Touch(S, ReadByGetArrayItem(S.node, array, which))
  IN IF c = NULL THEN S1 ELSE Unlink(S1, array, c)

cJSON_DetachItemFromObject(S, object, name) ==
  LET i == NameIndex(S.node, object, name)
      S1 == Touch(S, ReadByGetObjectItem(S.node, object, name))
  IN IF i = 0 THEN S1 ELSE cJSON_DetachItemFromArray(S1, object, i - 1)

\* frees c and the structs after it, and their children unless c is a reference
RECURSIVE cJSON_Delete(_, _, _)
cJSON_Delete(S, c, fuel) ==
  IF c = NULL \/ fuel = 0 THEN S
  ELSE LET n == S.node[c]
           S1 == IF n.st = "live" THEN S
                 ELSE [S EXCEPT !.ev = @ \cup {"use_after_free", "double_free"}]
           S2 == IF n.type < cJSON_IsReference /\ n.child # NULL
                 THEN cJSON_Delete(S1, n.child, fuel - 1)
                 ELSE S1
           S3 == [S2 EXCEPT !.node[c].st = "freed"]
       IN cJSON_Delete(S3, n.next, fuel - 1)

\* ----------------------------------------------- shared_ptr and the heap
\* the members of an ObjectSet (kept here in the order they were inserted)
Members(S, r) == IF r = NULL THEN {} ELSE SeqToSet(S.oset[r].elems)

\* every JSONObject there is: the caller's variables and the members of the sets
Wrappers(S) ==
  {S.var[v] : v \in Vars} \cup UNION {Members(S, r) : r \in {x \in Sets : S.oset[x].live}}

\* ~ObjectSet of every set no JSONObject shares any more: its members go
RECURSIVE DropSets(_)
DropSets(S) ==
  LET dead == {r \in Sets : S.oset[r].live} \ {w.refs_ : w \in Wrappers(S)}
  IN IF dead = {} THEN S
     ELSE DropSets([S EXCEPT !.oset = [r \in Sets |-> IF r \in dead THEN NoSet ELSE @[r]]])

\* Holder::~Holder
HolderDtor(S, h) ==
  LET S1 == IF S.holder[h].own_ THEN cJSON_Delete(S, S.holder[h].o, MaxNodes) ELSE S
  IN [S1 EXCEPT !.holder[h] = NoHolder]

RECURSIVE HolderDtors(_, _)
HolderDtors(S, hs) ==
  IF hs = {} THEN S
  ELSE LET h == CHOOSE x \in hs : \A y \in hs : x <= y
       IN HolderDtors(HolderDtor(S, h), hs \ {h})

\* ~Holder of every Holder no JSONObject shares any more
DropHolders(S) ==
  HolderDtors(S, {h \in Holders : S.holder[h].live} \ {w.obj_ : w \in Wrappers(S)})

RECURSIVE Ascending(_)
Ascending(ids) ==
  IF ids = {} THEN <<>>
  ELSE LET m == CHOOSE x \in ids : \A y \in ids : x <= y
       IN <<m>> \o Ascending(ids \ {m})

\* the structs a struct points to
Pointed(nd, c) ==
  {nd[c].child, nd[c].next, nd[c].prev, nd[c].valuestring, nd[c].from} \ {NULL}

\* a freed struct that no live struct and no Holder leads to is out of the picture
RECURSIVE Led(_, _)
Led(nd, seen) ==
  LET more == seen \cup UNION {Pointed(nd, c) : c \in seen}
  IN IF more = seen THEN seen ELSE Led(nd, more)

Forget(S) ==
  LET roots == {S.holder[h].o : h \in {x \in Holders : S.holder[x].live}}
                 \cup {n \in Nodes : S.node[n].st = "live"}
      kept == Led(S.node, roots \ {NULL})
  IN [S EXCEPT !.node = [n \in Nodes |-> IF n \in kept THEN @[n] ELSE NoNode]]

\* Addresses carry no meaning: the heap is laid out anew in the order a walk
\* from the caller's variables meets the Holders, the ObjectSets and the structs
InSeq(s, x) == \E i \in 1..Len(s) : s[i] = x
Pos(s, x) == IF x = NULL THEN NULL ELSE CHOOSE i \in 1..Len(s) : s[i] = x

RECURSIVE WalkObjects(_, _, _, _)
WalkObjects(S, queue, hs, ss) ==
  IF queue = <<>> THEN [hs |-> hs, ss |-> ss]
  ELSE LET q == Head(queue)
           hs1 == IF q.obj_ = NULL \/ InSeq(hs, q.obj_) THEN hs ELSE Append(hs, q.obj_)
           fresh == q.refs_ # NULL /\ ~InSeq(ss, q.refs_)
       IN WalkObjects(S, Tail(queue) \o (IF fresh THEN S.oset[q.refs_].elems ELSE <<>>),
                      hs1, IF fresh THEN Append(ss, q.refs_) ELSE ss)

RECURSIVE WalkNodes(_, _, _)
WalkNodes(nd, stack, order) ==
  IF stack = <<>> THEN order
  ELSE LET c == Head(stack)
           to == SelectSeq(<<nd[c].child, nd[c].next, nd[c].prev, nd[c].valuestring, nd[c].from>>,
                           LAMBDA x : x # NULL /\ x # c /\ ~InSeq(order, x))
       IN IF c = NULL \/ InSeq(order, c) THEN WalkNodes(nd, Tail(stack), order)
          ELSE WalkNodes(nd, to \o Tail(stack), Append(order, c))

Layout(S) ==
  LET met == WalkObjects(S, [v \in Vars |-> S.var[v]], <<>>, <<>>)
      hs == met.hs \o Ascending({h \in Holders : S.holder[h].live /\ ~InSeq(met.hs, h)})
      ss == met.ss \o Ascending({r \in Sets : S.oset[r].live /\ ~InSeq(met.ss, r)})
      n1 == WalkNodes(S.node, [i \in 1..Len(hs) |-> S.holder[hs[i]].o], <<>>)
      ns == WalkNodes(S.node, Ascending({n \in Nodes : S.node[n].st # "none"}), n1)
      W(w) == [obj_ |-> Pos(hs, w.obj_), refs_ |-> Pos(ss, w.refs_)]
  IN [node |-> [n \in Nodes |->
                  IF n > Len(ns) THEN NoNode
                  ELSE [S.node[ns[n]] EXCEPT !.child = Pos(ns, @), !.next = Pos(ns, @),
                                             !.prev = Pos(ns, @), !.valuestring = Pos(ns, @),
                                             !.from = Pos(ns, @)]],
      holder |-> [h \in Holders |->
                  IF h > Len(hs) THEN NoHolder
                  ELSE [S.holder[hs[h]] EXCEPT !.o = Pos(ns, @)]],
      oset |-> [r \in Sets |->
                  IF r > Len(ss) THEN NoSet
                  ELSE [live |-> TRUE,
                        elems |-> [i \in 1..Len(S.oset[ss[r]].elems) |-> W(S.oset[ss[r]].elems[i])]]],
      var |-> [v \in Vars |-> W(S.var[v])],
      ev |-> S.ev]

\* the end of a statement: the temporaries are gone
Release(S) == Layout(Forget(DropHolders(DropSets(S))))

\* ------------------------------------------------------- JSONObject
\* JSONObject(cJSON*, bool)
Wrap(S, h, r, obj, own) ==
  [S EXCEPT !.holder[h] = [live |-> TRUE, o |-> obj, own_ |-> own],
            !.oset[r] = [live |-> TRUE, elems |-> <<>>]]

\* the scalar constructors: no ObjectSet
WrapScalar(S, h, obj) ==
  [S EXCEPT !.holder[h] = [live |-> TRUE, o |-> obj, own_ |-> TRUE]]

ObjOf(S, w) == S.holder[w.obj_].o

\* operator<: the order, and so the identity, of the members of an ObjectSet
Less(S, a, b) == ObjOf(S, a) < ObjOf(S, b)

\* std::set::insert
Insert(S, r, o) ==
  IF \E e \in Members(S, r) : ~Less(S, e, o) /\ ~Less(S, o, e)
  THEN S
  ELSE [S EXCEPT !.oset[r].elems = Append(@, o)]

\* a remove that erases the record of the value the detached reference was made from
EvictOrigin(S, r, detached) ==
  [S EXCEPT !.oset[r].elems = SelectSeq(@, LAMBDA e : ObjOf(S, e) # S.node[detached].from)]

\* the loop of remove: the first member whose struct is the detached one goes
Evict(S, r, detached) ==
  [S EXCEPT !.oset[r].elems = SelectSeq(@, LAMBDA e : ObjOf(S, e) # detached)]

\* type(): the table, the index it is read at, the kind
vmap == <<"Bool", "Bool", "Null", "Number", "String", "Array", "Object">>

\* a type() that reads the table at the whole type word
TypeIndexUnmasked(nd, n) == nd[n].type

TypeIndex(nd, n) == Low8(nd[n].type)

TypeOf(nd, n) == vmap[TypeIndex(nd, n) + 1]

\* how the last statement ended: the call it made, "ok" or the error it threw,
\* and the values it returned (one for as and get, one per element for asArray)
Ok(op) == [op |-> op, err |-> "ok", val |-> <<>>]
Err(op, e) == [op |-> op, err |-> e, val |-> <<>>]
Returned(op, val) == [op |-> op, err |-> "ok", val |-> val]

\* the heap of the initial state
Empty ==
  [node |-> [n \in Nodes |-> NoNode], holder |-> [h \in Holders |-> NoHolder],
   oset |-> [s \in Sets |-> NoSet], var |-> [v \in Vars |-> NoVar], ev |-> {}]

\* the statement is over, by a return (r is Ok) or by a throw (r is the error):
\* the program goes on with what the statement wrote, unless it ran into
\* undefined behaviour: then nothing is known of the heap or of what follows
Commit(S, r) ==
  LET T == IF S = Here THEN S ELSE Release(S)
  IN IF T.ev = {}
     THEN /\ node' = T.node /\ holder' = T.holder /\ oset' = T.oset /\ var' = T.var
          /\ res' = r /\ UNCHANGED <<ub, halted, room>>
     ELSE /\ node' = Empty.node /\ holder' = Empty.holder /\ oset' = Empty.oset
          /\ var' = Empty.var
          /\ ub' = T.ev /\ halted' = TRUE /\ res' = Err(r.op, "undefined")
          /\ UNCHANGED room

\* throw: the locals of the call are destroyed, what it wrote stays written
Throw(S, op, e) == Commit(S, Err(op, e))

Init ==
  /\ node = Empty.node
  /\ holder = Empty.holder
  /\ oset = Empty.oset
  /\ var = Empty.var
  /\ res = Ok("none")
  /\ ub = {}
  /\ halted = FALSE
  /\ room = [nodes |-> SmallNodes, holders |-> SmallHolders]

\* the same in a heap with room for a container of two scalars
InitMedium ==
  /\ node = Empty.node
  /\ holder = Empty.holder
  /\ oset = Empty.oset
  /\ var = Empty.var
  /\ res = Ok("none")
  /\ ub = {}
  /\ halted = FALSE
  /\ room = [nodes |-> MediumNodes, holders |-> MediumHolders]

\* the same in a heap with room for every struct and Holder of the model
InitLarge ==
  /\ node = Empty.node
  /\ holder = Empty.holder
  /\ oset = Empty.oset
  /\ var = Empty.var
  /\ res = Ok("none")
  /\ ub = {}
  /\ halted = FALSE
  /\ room = [nodes |-> MaxNodes, holders |-> MaxHolders]

Declared(v) == var[v].obj_ # NULL

\* the model's heap has room for n more structs and k more Holders and ObjectSets
Room(n, k) ==
  /\ Cardinality(Nodes \ FreeNodes(Here)) + n <= room.nodes
  /\ Cardinality(Holders \ FreeHolders(Here)) + k <= room.holders
  /\ Cardinality(Sets \ FreeSets(Here)) + k <= room.holders

\* what a constructor is given: a tag, a number, a string
Val(t, i, c) == [t |-> t, i |-> i, s |-> c]
Containers == {Val(cJSON_Object, 0, ""), Val(cJSON_Array, 0, ""), Val(cJSON_NULL, 0, "")}
Scalars == {Val(cJSON_Number, 1, ""), Val(cJSON_String, 0, "x")}

\* JSONObject x;  JSONObject x = arrayObject();  JSONObject x = nullObject();
Construct(v, sc) ==
  /\ ~halted /\ ~Declared(v) /\ Room(1, 1)
  /\ LET S == Here
         n == NewNode(S)  h == NewHolder(S)  r == NewSet(S)
         S1 == Wrap(cJSON_Create(S, n, sc), h, r, n, TRUE)
     IN Commit([S1 EXCEPT !.var[v] = [obj_ |-> h, refs_ |-> r]], Ok("construct"))

\* JSONObject x(1);  JSONObject x("x");  JSONObject x(true);
ConstructScalar(v, sc) ==
  /\ ~halted /\ ~Declared(v) /\ Room(1, 1)
  /\ LET S == Here
         n == NewNode(S)  h == NewHolder(S)
         S1 == WrapScalar(cJSON_Create(S, n, sc), h, n)
     IN Commit([S1 EXCEPT !.var[v] = [obj_ |-> h, refs_ |-> NULL]], Ok("construct"))

\* a copy constructor that makes a Holder of its own over the same struct
CopyHolder(v, w) ==
  /\ ~halted /\ Declared(v) /\ ~Declared(w) /\ Room(0, 1)
  /\ LET h == NewHolder(Here)
     IN Commit([Here EXCEPT !.holder[h] = [holder[var[v].obj_] EXCEPT !.live = TRUE],
                            !.var[w] = [obj_ |-> h, refs_ |-> var[v].refs_]], Ok("copy"))

\* a copy constructor that copies the ObjectSet instead of sharing it
CopySet(v, w) ==
  /\ ~halted /\ Declared(v) /\ ~Declared(w) /\ Room(0, 1)
  /\ LET r == NewSet(Here)
     IN Commit([Here EXCEPT !.oset[r] = [live |-> TRUE,
                                         elems |-> IF var[v].refs_ = NULL THEN <<>>
                                                   ELSE oset[var[v].refs_].elems],
                            !.var[w] = [obj_ |-> var[v].obj_, refs_ |-> r]], Ok("copy"))

\* JSONObject y(x);
Copy(v, w) ==
  /\ ~halted /\ Declared(v) /\ ~Declared(w)
  /\ Commit([Here EXCEPT !.var[w] = var[v]], Ok("copy"))

\* y = x;
Assign(v, w) ==
  /\ ~halted /\ Declared(v) /\ Declared(w)
  /\ Commit(IF v # w THEN [Here EXCEPT !.var[w] = var[v]] ELSE Here, Ok("assign"))

\* x goes out of scope
Destroy(v) ==
  /\ ~halted /\ Declared(v)
  /\ Commit([Here EXCEPT !.var[v] = NoVar], Ok("destroy"))

\* as<JSONObject>(cJSON*): a wrapper that does not own obj, with a set of its own
AsJSONObject(S, w, obj) ==
  LET h == NewHolder(S)  r == NewSet(S)
  IN [Wrap(S, h, r, obj, FALSE) EXCEPT !.var[w] = [obj_ |-> h, refs_ |-> r]]

\* an as<bool> that takes only true for a boolean
FitsTrueOnly(nd, obj, T) ==
  CASE T \in {"int", "int64", "double"} -> Low8(nd[obj].type) = cJSON_Number
    [] T = "string" -> Low8(nd[obj].type) = cJSON_String
    [] T = "bool" -> Low8(nd[obj].type) = cJSON_True
    [] OTHER -> TRUE

\* as<int>, as<int64_t>, as<double>, as<std::string>, as<bool> (cJSON*): does
\* the tag fit T
Fits(nd, obj, T) ==
  CASE T \in {"int", "int64", "double"} -> Low8(nd[obj].type) = cJSON_Number
    [] T = "string" -> Low8(nd[obj].type) = cJSON_String
    [] T = "bool" -> Low8(nd[obj].type) \in {cJSON_True, cJSON_False}
    [] OTHER -> TRUE

Types == {"int", "int64", "double", "string", "bool"}

\* a value a typed getter returns: a number (a bool as 1 or 0) or a string
Value(i, c) == [i |-> i, s |-> c]

\* as<int>, as<int64_t>, as<double>, as<std::string>, as<bool> (cJSON*):
\* the value, or the error thrown when the tag does not fit T
as_cJSON(nd, obj, T) ==
  IF ~Fits(nd, obj, T) THEN [err |-> "TypeMismatch", val |-> <<>>]
  ELSE [err |-> "ok",
        val |-> <<CASE T = "int" -> Value(nd[obj].valueint, "")
                    [] T \in {"int64", "double"} -> Value(nd[obj].valuedouble, "")
                    [] T = "string" -> Value(0, nd[obj].chars)
                    [] T = "bool" -> Value(IF Low8(nd[obj].type) = cJSON_True THEN 1 ELSE 0, "")>>]

\* the structs and buffers as<T>(cJSON*) reads
ReadByAs(nd, obj, T) ==
  {obj} \cup (IF T = "string" /\ Low8(nd[obj].type) = cJSON_String THEN {nd[obj].valuestring} ELSE {})

\* the statement that called a typed getter is over
Finish(S, op, got) ==
  IF got.err = "ok" THEN Commit(S, Returned(op, got.val)) ELSE Throw(S, op, got.err)

\* JSONObject y = x.as<JSONObject>();
As(v, w) ==
  /\ ~halted /\ Declared(v) /\ ~Declared(w) /\ Room(0, 1)
  /\ Commit(AsJSONObject(Here, w, ObjOf(Here, var[v])), Ok("as"))

\* x.as<T>();
AsT(v, T) ==
  /\ ~halted /\ Declared(v)
  /\ LET o == ObjOf(Here, var[v])
     IN Finish(Touch(Here, ReadByAs(node, o, T)), "as", as_cJSON(node, o, T))

\* x.type();  the kind is returned by name
Type(v) ==
  /\ ~halted /\ Declared(v)
  /\ LET o == ObjOf(Here, var[v])
         S == Touch(Here, {o})
     IN IF TypeIndex(node, o) < Len(vmap)
        THEN Commit(S, Returned("type", <<Value(0, TypeOf(node, o))>>))
        ELSE Commit([S EXCEPT !.ev = @ \cup {"out_of_bounds"}], Ok("type"))

\* a get that looks the name up before it checks the type of x
GetNameLookupFirst(v, name, w) ==
  /\ ~halted /\ Declared(v) /\ ~Declared(w) /\ Room(0, 1)
  /\ LET o == ObjOf(Here, var[v])
         S == Touch(Here, ReadByGetObjectItem(node, o, name))
         item == cJSON_GetObjectItem(node, o, name)
     IN IF item = NULL THEN Throw(S, "get", "NoSuchItem")
        ELSE IF Low8(node[o].type) # cJSON_Object THEN Throw(S, "get", "NotAnObject")
             ELSE Commit(AsJSONObject(S, w, item), Ok("get"))

\* JSONObject y = x.get<JSONObject>(name);
GetName(v, name, w) ==
  /\ ~halted /\ Declared(v) /\ ~Declared(w) /\ Room(0, 1)
  /\ LET o == ObjOf(Here, var[v])
         S == Touch(Here, {o})
         item == cJSON_GetObjectItem(node, o, name)
     IN IF Low8(node[o].type) # cJSON_Object THEN Throw(S, "get", "NotAnObject")
        ELSE IF item = NULL
             THEN Throw(Touch(S, ReadByGetObjectItem(node, o, name)), "get", "NoSuchItem")
             ELSE Commit(AsJSONObject(Touch(S, ReadByGetObjectItem(node, o, name)), w, item), Ok("get"))

\* JSONObject y = x.get<JSONObject>(index);  and one element of x.asArray<JSONObject>()
GetIndex(v, index, w) ==
  /\ ~halted /\ Declared(v) /\ ~Declared(w) /\ Room(0, 1)
  /\ LET o == ObjOf(Here, var[v])
         S == Touch(Here, {o})
         item == cJSON_GetArrayItem(node, o, index)
     IN IF Low8(node[o].type) # cJSON_Array THEN Throw(S, "get", "NotAnArray")
        ELSE IF item = NULL
             THEN Throw(Touch(S, ReadByGetArrayItem(node, o, index)), "get", "NoSuchItem")
             ELSE Commit(AsJSONObject(Touch(S, ReadByGetArrayItem(node, o, index)), w, item), Ok("get"))

\* a get<T> that does not check the type of x
get_nameUnchecked(nd, o, name, T) ==
  LET item == cJSON_GetObjectItem(nd, o, name)
  IN IF item = NULL THEN [err |-> "NoSuchItem", val |-> <<>>] ELSE as_cJSON(nd, item, T)

\* get<T>(const char*) for a T that is not JSONObject: what it returns or throws
get_name(nd, o, name, T) ==
  LET item == cJSON_GetObjectItem(nd, o, name)
  IN IF Low8(nd[o].type) # cJSON_Object THEN [err |-> "NotAnObject", val |-> <<>>]
     ELSE IF item = NULL THEN [err |-> "NoSuchItem", val |-> <<>>]
     ELSE as_cJSON(nd, item, T)

\* get<T>(int) for a T that is not JSONObject
get_index(nd, o, index, T) ==
  LET item == cJSON_GetArrayItem(nd, o, index)
  IN IF Low8(nd[o].type) # cJSON_Array THEN [err |-> "NotAnArray", val |-> <<>>]
     ELSE IF item = NULL THEN [err |-> "NoSuchItem", val |-> <<>>]
     ELSE as_cJSON(nd, item, T)

\* an asArray whose loop stops one element short
asArrayShort(nd, o, T) ==
  LET size == Max(cJSON_GetArraySize(nd, o) - 1, 0)
      got == [i \in 1..size |-> as_cJSON(nd, cJSON_GetArrayItem(nd, o, i - 1), T)]
  IN IF Low8(nd[o].type) # cJSON_Array THEN [err |-> "NotAnArray", val |-> <<>>]
     ELSE IF \E i \in 1..size : got[i].err # "ok" THEN [err |-> "TypeMismatch", val |-> <<>>]
     ELSE [err |-> "ok", val |-> [i \in 1..size |-> got[i].val[1]]]

\* asArray<T>() for a T that is not JSONObject: as<T> of every element in turn
asArray(nd, o, T) ==
  LET size == cJSON_GetArraySize(nd, o)
      got == [i \in 1..size |-> as_cJSON(nd, cJSON_GetArrayItem(nd, o, i - 1), T)]
  IN IF Low8(nd[o].type) # cJSON_Array THEN [err |-> "NotAnArray", val |-> <<>>]
     ELSE IF \E i \in 1..size : got[i].err # "ok" THEN [err |-> "TypeMismatch", val |-> <<>>]
     ELSE [err |-> "ok", val |-> [i \in 1..size |-> got[i].val[1]]]

\* x.get<T>(name);
GetNameT(v, name, T) ==
  /\ ~halted /\ Declared(v)
  /\ LET o == ObjOf(Here, var[v])
         item == cJSON_GetObjectItem(node, o, name)
         read == IF Low8(node[o].type) # cJSON_Object THEN {o}
                 ELSE ReadByGetObjectItem(node, o, name)
                        \cup (IF item = NULL THEN {} ELSE ReadByAs(node, item, T))
     IN Finish(Touch(Here, read), "get", get_name(node, o, name, T))

\* x.get<JSONObject>(name).as<T>();  the wrapper get returns is a temporary
GetNameAsT(v, name, T) ==
  /\ ~halted /\ Declared(v) /\ Room(0, 1)
  /\ LET o == ObjOf(Here, var[v])
         S == Touch(Here, {o})
         item == cJSON_GetObjectItem(node, o, name)
         S1 == Touch(S, ReadByGetObjectItem(node, o, name))
         h == NewHolder(S1)  r == NewSet(S1)
         S2 == Wrap(S1, h, r, item, FALSE)
         tmp == [obj_ |-> h, refs_ |-> r]
     IN IF Low8(node[o].type) # cJSON_Object THEN Throw(S, "get", "NotAnObject")
        ELSE IF item = NULL THEN Throw(S1, "get", "NoSuchItem")
        ELSE Finish(Touch(S2, ReadByAs(S2.node, ObjOf(S2, tmp), T)), "as",
                    as_cJSON(S2.node, ObjOf(S2, tmp), T))

\* x.get<T>(index);
GetIndexT(v, index, T) ==
  /\ ~halted /\ Declared(v)
  /\ LET o == ObjOf(Here, var[v])
         item == cJSON_GetArrayItem(node, o, index)
         read == IF Low8(node[o].type) # cJSON_Array THEN {o}
                 ELSE ReadByGetArrayItem(node, o, index)
                        \cup (IF item = NULL THEN {} ELSE ReadByAs(node, item, T))
     IN Finish(Touch(Here, read), "get", get_index(node, o, index, T))

\* x.asArray<T>();
AsArray(v, T) ==
  /\ ~halted /\ Declared(v)
  /\ LET o == ObjOf(Here, var[v])
         cs == Children(node, o)
         upto == {i \in 1..Len(cs) : \A j \in 1..(i - 1) : Fits(node, cs[j], T)}
         read == IF Low8(node[o].type) # cJSON_Array THEN {o}
                 ELSE {o} \cup UNION {ReadByAs(node, cs[i], T) : i \in upto}
     IN Finish(Touch(Here, read), "asArray", asArray(node, o, T))

\* the body of add after the type check: JSONObject o(value), the reference, the insert
Attach(S, v, o, name) ==
  LET array == ObjOf(S, S.var[v])
      ref == NewNode(S)
      S1 == IF name = ""
            THEN cJSON_AddItemReferenceToArray(S, ref, array, ObjOf(S, o))
            ELSE cJSON_AddItemReferenceToObject(S, ref, array, name, ObjOf(S, o))
  IN Insert(S1, S.var[v].refs_, o)

\* the temporary JSONObject o(value) of a scalar value
Temp(S, sc) ==
  LET n == NewNode(S)  h == NewHolder(S)
  IN [S |-> WrapScalar(cJSON_Create(S, n, sc), h, n), o |-> [obj_ |-> h, refs_ |-> NULL]]

\* an add that makes an array of an x that is not one, instead of throwing
AddCoercing(v, y) ==
  /\ ~halted /\ Declared(v) /\ Declared(y) /\ Room(1, 0)
  /\ LET o == ObjOf(Here, var[v])
         S == [Touch(Here, {o}) EXCEPT !.node[o].type = cJSON_Array]
     IN Commit(Attach(S, v, var[y], ""), Ok("add"))

\* x.add(y);
Add(v, y) ==
  /\ ~halted /\ Declared(v) /\ Declared(y) /\ Room(1, 0)
  /\ LET o == ObjOf(Here, var[v])
         S == Touch(Here, {o})
     IN IF Low8(node[o].type) # cJSON_Array THEN Throw(S, "add", "NotAnArray")
        ELSE Commit(Attach(S, v, var[y], ""), Ok("add"))

\* an add that links the value before it checks the type of x
AddScalarEager(v, sc) ==
  /\ ~halted /\ Declared(v) /\ Room(2, 1)
  /\ LET o == ObjOf(Here, var[v])
         S == Touch(Here, {o})
         t == Temp(S, sc)
         linked == cJSON_AddItemReferenceToArray(t.S, NewNode(t.S), o, ObjOf(t.S, t.o))
     IN IF Low8(node[o].type) # cJSON_Array THEN Throw(linked, "add", "NotAnArray")
        ELSE Commit(Attach(t.S, v, t.o, ""), Ok("add"))

\* x.add(1);  x.add("x");  x.add(true);
AddScalar(v, sc) ==
  /\ ~halted /\ Declared(v) /\ Room(2, 1)
  /\ LET o == ObjOf(Here, var[v])
         S == Touch(Here, {o})
         t == Temp(S, sc)
     IN IF Low8(node[o].type) # cJSON_Array THEN Throw(S, "add", "NotAnArray")
        ELSE Commit(Attach(t.S, v, t.o, ""), Ok("add"))

\* the loop of the sequence constructors: add(*it) for every element
RECURSIVE AddAll(_, _, _)
AddAll(S, v, elems) ==
  IF elems = <<>> THEN S
  ELSE LET t == Temp(S, Head(elems))
       IN AddAll(Attach(t.S, v, t.o, ""), v, Tail(elems))

\* JSONObject x(elems);  JSONObject x = {e1, e2};
ConstructFrom(v, elems) ==
  /\ ~halted /\ ~Declared(v) /\ Room(1 + 2 * Len(elems), 1 + Len(elems))
  /\ LET S == Here
         n == NewNode(S)  h == NewHolder(S)  r == NewSet(S)
         S1 == Wrap(cJSON_Create(S, n, Val(cJSON_Array, 0, "")), h, r, n, TRUE)
         S2 == [S1 EXCEPT !.var[v] = [obj_ |-> h, refs_ |-> r]]
     IN Commit(AddAll(S2, v, elems), Ok("construct"))

\* x.set(name, y);
Set(v, name, y) ==
  /\ ~halted /\ Declared(v) /\ Declared(y) /\ Room(1, 0)
  /\ LET o == ObjOf(Here, var[v])
         S == Touch(Here, {o})
     IN IF Low8(node[o].type) # cJSON_Object THEN Throw(S, "set", "NotAnObject")
        ELSE Commit(Attach(S, v, var[y], name), Ok("set"))

\* x.set(name, 1);  x.set(name, "x");  x.set(name, true);
SetScalar(v, name, sc) ==
  /\ ~halted /\ Declared(v) /\ Room(2, 1)
  /\ LET o == ObjOf(Here, var[v])
         S == Touch(Here, {o})
         t == Temp(S, sc)
     IN IF Low8(node[o].type) # cJSON_Object THEN Throw(S, "set", "NotAnObject")
        ELSE Commit(Attach(t.S, v, t.o, name), Ok("set"))

\* the body of remove after the detach
Removed(S, v, detached) ==
  cJSON_Delete(Evict(S, S.var[v].refs_, detached), detached, MaxNodes)

\* x.remove(name);
RemoveName(v, name) ==
  /\ ~halted /\ Declared(v)
  /\ LET o == ObjOf(Here, var[v])
         S == Touch(Here, {o})
         detached == cJSON_GetObjectItem(node, o, name)
         S1 == cJSON_DetachItemFromObject(S, o, name)
     IN IF Low8(node[o].type) # cJSON_Object THEN Throw(S, "remove", "NotAnObject")
        ELSE IF detached = NULL THEN Throw(S1, "remove", "NoSuchItem")
        ELSE Commit(Removed(S1, v, detached), Ok("remove"))

\* x.remove(index);
RemoveIndex(v, index) ==
  /\ ~halted /\ Declared(v)
  /\ LET o == ObjOf(Here, var[v])
         S == Touch(Here, {o})
         detached == cJSON_GetArrayItem(node, o, index)
         S1 == cJSON_DetachItemFromArray(S, o, index)
     IN IF Low8(node[o].type) # cJSON_Array THEN Throw(S, "remove", "NotAnArray")
        ELSE IF detached = NULL THEN Throw(S1, "remove", "NoSuchItem")
        ELSE Commit(Removed(S1, v, detached), Ok("remove"))

\* ------------------------------------------------------------ parse
\* a text is a sequence of tokens; a value is a number, a string, an array
\* [ v , v ] or an object { name : v , name : v }
Digits == {"1", "2"}
Quoted == {"a", "b", "x"}
Tree(t, i, c, keys, kids) == [t |-> t, i |-> i, s |-> c, keys |-> keys, kids |-> kids]
Failed == [ok |-> FALSE, at |-> 0, tree |-> Tree(cJSON_NULL, 0, "", <<>>, <<>>)]
Parsed(at, tree) == [ok |-> TRUE, at |-> at, tree |-> tree]
Tok(text, at) == IF at <= Len(text) THEN text[at] ELSE "end"

RECURSIVE parse_value(_, _, _)
RECURSIVE parse_items(_, _, _, _, _, _)

\* the items of a container from position at on, up to its closing token
parse_items(text, at, t, keys, kids, fuel) ==
  LET named == t = cJSON_Object
      key == Tok(text, at)
      item == parse_value(text, IF named THEN at + 2 ELSE at, fuel - 1)
  IN IF fuel = 0 THEN Failed
     ELSE IF named /\ (key \notin Quoted \/ Tok(text, at + 1) # ":") THEN Failed
     ELSE IF ~item.ok THEN Failed
     ELSE LET keys1 == Append(keys, IF named THEN key ELSE "")
              kids1 == Append(kids, item.tree)
              sep == Tok(text, item.at)
          IN IF sep = "," THEN parse_items(text, item.at + 1, t, keys1, kids1, fuel - 1)
             ELSE IF sep = (IF named THEN "}" ELSE "]")
                  THEN Parsed(item.at + 1, Tree(t, 0, "", keys1, kids1))
                  ELSE Failed

parse_value(text, at, fuel) ==
  LET tok == Tok(text, at)
  IN IF fuel = 0 THEN Failed
     ELSE IF tok \in Digits THEN Parsed(at + 1, Tree(cJSON_Number, IF tok = "1" THEN 1 ELSE 2, "", <<>>, <<>>))
     ELSE IF tok \in Quoted THEN Parsed(at + 1, Tree(cJSON_String, 0, tok, <<>>, <<>>))
     ELSE IF tok = "null" THEN Parsed(at + 1, Tree(cJSON_NULL, 0, "", <<>>, <<>>))
     ELSE IF tok = "false" THEN Parsed(at + 1, Tree(cJSON_False, 0, "", <<>>, <<>>))
     ELSE IF tok = "true" THEN Parsed(at + 1, Tree(cJSON_True, 0, "", <<>>, <<>>))
     ELSE IF tok \in {"[", "{"}
          THEN LET t == IF tok = "[" THEN cJSON_Array ELSE cJSON_Object
                   close == IF tok = "[" THEN "]" ELSE "}"
               IN IF Tok(text, at + 1) = close
                  THEN Parsed(at + 2, Tree(t, 0, "", <<>>, <<>>))
                  ELSE parse_items(text, at + 1, t, <<>>, <<>>, fuel - 1)
          ELSE Failed

\* skip: the white space between the tokens is passed over
skip(text) == SelectSeq(text, LAMBDA tok : tok # " ")

\* the value of a text
Parse(text) == parse_value(skip(text), 1, 2 * Len(text) + 2)

\* the text is one value and nothing else
WellFormed(text) == Parse(text).ok /\ Parse(text).at = Len(skip(text)) + 1

RECURSIVE TreeSize(_)
TreeSize(tree) ==
  IF tree.kids = <<>> THEN 1
  ELSE 1 + TreeSize(tree.kids[1]) + (TreeSize([tree EXCEPT !.kids = Tail(@)]) - 1)

\* the structs of a parsed tree: the children are linked themselves, not by reference
RECURSIVE Build(_, _)
RECURSIVE BuildKids(_, _, _, _)
Build(S, tree) ==
  LET n == NewNode(S)
  IN BuildKids(cJSON_Create(S, n, Val(tree.t, tree.i, tree.s)), n, tree, 1)

BuildKids(S, parent, tree, k) ==
  IF k > Len(tree.kids) THEN [S |-> S, n |-> parent]
  ELSE LET b == Build(S, tree.kids[k])
       IN BuildKids(cJSON_AddItemToObject(b.S, parent, tree.keys[k], b.n), parent, tree, k + 1)

\* cJSON_Parse: the root of the tree, or NULL and nothing allocated
cJSON_Parse(S, text) ==
  IF WellFormed(text)
  THEN Build(S, Parse(text).tree)
  ELSE [S |-> S, n |-> NULL]

\* the structs cJSON_Parse allocates for a text
Structs(text) == IF WellFormed(text) THEN TreeSize(Parse(text).tree) ELSE 0

\* a parse that wraps whatever cJSON_Parse returned
parseUnchecked(v, text) ==
  /\ ~halted /\ ~Declared(v)
  /\ Room(Structs(text), 1)
  /\ LET p == cJSON_Parse(Here, text)
         h == NewHolder(p.S)  r == NewSet(p.S)
     IN Commit([Wrap(p.S, h, r, p.n, TRUE) EXCEPT !.var[v] = [obj_ |-> h, refs_ |-> r]], Ok("parse"))

\* JSONObject x = parse(text);
parse(v, text) ==
  /\ ~halted /\ ~Declared(v)
  /\ Room(Structs(text), 1)
  /\ LET p == cJSON_Parse(Here, text)
         h == NewHolder(p.S)  r == NewSet(p.S)
     IN IF p.n # NULL
        THEN Commit([Wrap(p.S, h, r, p.n, TRUE) EXCEPT !.var[v] = [obj_ |-> h, refs_ |-> r]], Ok("parse"))
        ELSE Throw(p.S, "parse", "ParseError")

\* everything the printer reads of the tree under c
RECURSIVE ReadByPrint(_, _, _)
ReadByPrint(nd, c, fuel) ==
  IF c = NULL \/ fuel = 0 THEN {}
  ELSE {c} \cup (IF Low8(nd[c].type) = cJSON_String THEN {nd[c].valuestring} ELSE {})
           \cup (IF Low8(nd[c].type) \in {cJSON_Array, cJSON_Object}
                 THEN UNION {ReadByPrint(nd, k, fuel - 1) : k \in SeqToSet(Children(nd, c))}
                 ELSE {})

\* the text of a number: the numbers of the model are 1 and 2
print_number(i) == IF i = 1 THEN "1" ELSE "2"

\* a printer that switches on the whole type word, the reference flag included
RECURSIVE cJSON_PrintFlagged(_, _, _, _)
cJSON_PrintFlagged(nd, c, fmt, fuel) ==
  LET t == nd[c].type
      cs == Children(nd, c)
      gap == IF fmt THEN <<" ">> ELSE <<>>
      item(k) == (IF t = cJSON_Object THEN <<nd[cs[k]].string, ":">> \o gap ELSE <<>>)
                   \o cJSON_PrintFlagged(nd, cs[k], fmt, fuel - 1)
                   \o (IF k < Len(cs) THEN <<",">> \o gap ELSE <<>>)
      items[k \in 0..Len(cs)] == IF k = 0 THEN <<>> ELSE items[k - 1] \o item(k)
  IN IF fuel = 0 THEN <<>>
     ELSE CASE t = cJSON_NULL -> <<"null">>
            [] t = cJSON_False -> <<"false">>
            [] t = cJSON_True -> <<"true">>
            [] t = cJSON_Number -> <<print_number(nd[c].valueint)>>
            [] t = cJSON_String -> <<nd[c].chars>>
            [] t = cJSON_Array -> <<"[">> \o items[Len(cs)] \o <<"]">>
            [] t = cJSON_Object -> <<"{">> \o gap \o items[Len(cs)] \o gap \o <<"}">>
            [] OTHER -> <<>>

\* cJSON_Print (fmt) and cJSON_PrintUnformatted: the text of the tree under c
RECURSIVE cJSON_Print(_, _, _, _)
cJSON_Print(nd, c, fmt, fuel) ==
  LET t == Low8(nd[c].type)
      cs == Children(nd, c)
      gap == IF fmt THEN <<" ">> ELSE <<>>
      item(k) == (IF t = cJSON_Object THEN <<nd[cs[k]].string, ":">> \o gap ELSE <<>>)
                   \o cJSON_Print(nd, cs[k], fmt, fuel - 1)
                   \o (IF k < Len(cs) THEN <<",">> \o gap ELSE <<>>)
      items[k \in 0..Len(cs)] == IF k = 0 THEN <<>> ELSE items[k - 1] \o item(k)
  IN IF fuel = 0 THEN <<>>
     ELSE CASE t = cJSON_NULL -> <<"null">>
            [] t = cJSON_False -> <<"false">>
            [] t = cJSON_True -> <<"true">>
            [] t = cJSON_Number -> <<print_number(nd[c].valueint)>>
            [] t = cJSON_String -> <<nd[c].chars>>
            [] t = cJSON_Array -> <<"[">> \o items[Len(cs)] \o <<"]">>
            [] t = cJSON_Object -> <<"{">> \o gap \o items[Len(cs)] \o gap \o <<"}">>
            [] OTHER -> <<>>

\* JSONObject y = parse(x.print(formatted));
Reparse(v, w, fmt) ==
  /\ ~halted /\ Declared(v) /\ ~Declared(w)
  /\ LET o == ObjOf(Here, var[v])
         text == cJSON_Print(node, o, fmt, MaxNodes)
         S == Touch(Here, ReadByPrint(node, o, MaxNodes))
         p == cJSON_Parse(S, text)
         h == NewHolder(p.S)  r == NewSet(p.S)
     IN /\ Room(Structs(text), 1)
        /\ IF p.n # NULL
           THEN Commit([Wrap(p.S, h, r, p.n, TRUE) EXCEPT !.var[w] = [obj_ |-> h, refs_ |-> r]],
                       Ok("parse"))
           ELSE Throw(p.S, "parse", "ParseError")

\* x.print();
print(v) ==
  /\ ~halted /\ Declared(v)
  /\ Commit(Touch(Here, ReadByPrint(node, ObjOf(Here, var[v]), MaxNodes)), Ok("print"))

\* ---------------------------------------------------------- programs
\* every statement a program over Vars can execute next
Building ==
  \/ \E v \in Vars, sc \in Containers : Construct(v, sc)
  \/ \E v \in Vars, sc \in Scalars : ConstructScalar(v, sc)
  \/ \E v, w \in Vars : Copy(v, w)
  \/ \E v, w \in Vars : Assign(v, w)
  \/ \E v \in Vars : Destroy(v)
  \/ \E v, y \in Vars : Add(v, y)
  \/ \E v \in Vars, sc \in Scalars : AddScalar(v, sc)
  \/ \E v, y \in Vars, name \in Names : Set(v, name, y)
  \/ \E v \in Vars, name \in Names, sc \in Scalars : SetScalar(v, name, sc)
  \/ \E v \in Vars, elems \in UNION {[1..n -> Scalars] : n \in 0..2} : ConstructFrom(v, elems)

Removing ==
  \/ \E v \in Vars, name \in Names : RemoveName(v, name)
  \/ \E v \in Vars, index \in Indexes : RemoveIndex(v, index)

Navigating ==
  \/ \E v, w \in Vars : As(v, w)
  \/ \E v, w \in Vars, name \in Names : GetName(v, name, w)
  \/ \E v, w \in Vars, index \in Indexes : GetIndex(v, index, w)

Texts ==
  {<<>>, <<"!">>, <<"[", "x">>, <<"[", "x", "]">>, <<"[", "x", "]", "]">>,
   <<"{", "a", ":", "1", "}">>, <<"{", "a", "1", "}">>, <<"[", "[", "]", "]">>}

Parsing ==
  \/ \E v \in Vars, text \in Texts : parse(v, text)
  \/ \E v, w \in Vars, fmt \in BOOLEAN : Reparse(v, w, fmt)

Reading ==
  \/ \E v \in Vars, T \in Types : AsT(v, T)
  \/ \E v \in Vars, T \in Types : AsArray(v, T)
  \/ \E v \in Vars : print(v)
  \/ \E v \in Vars, name \in Names, T \in Types : GetNameT(v, name, T)
  \/ \E v \in Vars, index \in Indexes, T \in Types : GetIndexT(v, index, T)
  \/ \E v \in Vars, name \in Names, T \in Types : GetNameAsT(v, name, T)
  \/ \E v \in Vars : Type(v)

Next == Building \/ Removing \/ Navigating \/ Reading \/ Parsing

Spec == Init /\ [][Next]_vars

\* the programs that build, copy and take apart containers of numbers and
\* never navigate: every wrapper owns its node
Number1 == Val(cJSON_Number, 1, "")
StringX == Val(cJSON_String, 0, "x")
ArrayOrObject == {Val(cJSON_Array, 0, ""), Val(cJSON_Object, 0, "")}

Owning ==
  \/ \E v \in Vars, sc \in ArrayOrObject : Construct(v, sc)
  \/ \E v, w \in Vars : Copy(v, w)
  \/ \E v, w \in Vars : Assign(v, w)
  \/ \E v \in Vars : Destroy(v)
  \/ \E v \in Vars : AddScalar(v, Number1)
  \/ \E v \in Vars : SetScalar(v, "a", Number1)
  \/ \E v, y \in Vars : Add(v, y)
  \/ \E v, y \in Vars : Set(v, "a", y)
  \/ \E v \in Vars : RemoveName(v, "a")
  \/ \E v \in Vars, index \in Indexes : RemoveIndex(v, index)

SpecOwning == Init /\ [][Owning]_vars

\* the programs over arrays that add wrappers and navigate by index
Arrays ==
  \/ \E v \in Vars : Construct(v, Val(cJSON_Array, 0, ""))
  \/ \E v \in Vars : parse(v, <<"[", "x", "]">>)
  \/ \E v \in Vars : Destroy(v)
  \/ \E v, y \in Vars : Add(v, y)
  \/ \E v \in Vars : RemoveIndex(v, 0)
  \/ \E v, w \in Vars, index \in 0..MaxIndex : GetIndex(v, index, w)
  \/ \E v \in Vars : print(v)

SpecArrays == Init /\ [][Arrays]_vars

\* the programs over arrays of strings that write through the wrappers navigation gives
Aliases ==
  \/ \E v \in Vars : Construct(v, Val(cJSON_Array, 0, ""))
  \/ \E v \in Vars : Destroy(v)
  \/ \E v \in Vars : AddScalar(v, StringX)
  \/ \E v \in Vars, index \in Indexes : RemoveIndex(v, index)
  \/ \E v, w \in Vars : As(v, w)
  \/ \E v, w \in Vars, index \in Indexes : GetIndex(v, index, w)
  \/ \E v, w \in Vars : Copy(v, w)
  \/ \E v \in Vars : print(v)

SpecAliases == Init /\ [][Aliases]_vars

\* the programs over objects with one member name that navigate by name
Objects ==
  \/ \E v \in Vars, sc \in ArrayOrObject : Construct(v, sc)
  \/ \E v \in Vars : Destroy(v)
  \/ \E v, y \in Vars : Set(v, "a", y)
  \/ \E v \in Vars : SetScalar(v, "a", StringX)
  \/ \E v \in Vars : RemoveName(v, "a")
  \/ \E v, w \in Vars : GetName(v, "a", w)
  \/ \E v \in Vars : print(v)

SpecObjects == Init /\ [][Objects]_vars

\* the programs that parse a text, read the tree and take it apart
Documents ==
  \/ Parsing
  \/ \E v \in Vars : Destroy(v)
  \/ \E v, w \in Vars : Copy(v, w)
  \/ \E v, w \in Vars : GetIndex(v, 0, w)
  \/ \E v, w \in Vars : GetName(v, "a", w)
  \/ \E v \in Vars : RemoveIndex(v, 0)
  \/ \E v \in Vars : RemoveName(v, "a")
  \/ \E v \in Vars, T \in Types : AsT(v, T)
  \/ \E v \in Vars : print(v)

SpecDocuments == Init /\ [][Documents]_vars

\* the programs whose calls can fail in every way the library reports
Failing ==
  \/ \E v \in Vars, sc \in Containers : Construct(v, sc)
  \/ \E v \in Vars : ConstructScalar(v, Number1)
  \/ \E v \in Vars : Destroy(v)
  \/ \E v \in Vars : AddScalar(v, Number1)
  \/ \E v \in Vars : SetScalar(v, "a", StringX)
  \/ \E v \in Vars, name \in Names : RemoveName(v, name)
  \/ \E v \in Vars, index \in Indexes : RemoveIndex(v, index)
  \/ \E v, w \in Vars, name \in Names : GetName(v, name, w)
  \/ \E v, w \in Vars, index \in Indexes : GetIndex(v, index, w)
  \/ \E v \in Vars, T \in Types : AsT(v, T)
  \/ \E v \in Vars, T \in Types : AsArray(v, T)
  \/ \E v \in Vars, text \in {<<>>, <<"[", "x">>, <<"{", "a", ":", "1", "}">>} : parse(v, text)

SpecFailing == Init /\ [][Failing]_vars

\* the programs that call every accessor on wrappers of every kind
True1 == Val(cJSON_True, 0, "")
False0 == Val(cJSON_False, 0, "")
\* one requested type of each class: a number, a string, a boolean
KindTypes == {"int", "string", "bool"}
Kinds ==
  \/ \E v \in Vars, sc \in Containers : Construct(v, sc)
  \/ \E v \in Vars, sc \in {Number1, StringX, True1, False0} : ConstructScalar(v, sc)
  \/ \E v \in Vars : Destroy(v)
  \/ \E v \in Vars, sc \in {Number1, True1} : AddScalar(v, sc)
  \/ \E v \in Vars, sc \in {StringX, False0} : SetScalar(v, "a", sc)
  \/ \E v \in Vars, name \in Names : RemoveName(v, name)
  \/ \E v \in Vars, index \in Indexes : RemoveIndex(v, index)
  \/ \E v, w \in Vars, name \in Names : GetName(v, name, w)
  \/ \E v, w \in Vars, index \in Indexes : GetIndex(v, index, w)
  \/ \E v \in Vars, name \in Names, T \in KindTypes : GetNameT(v, name, T)
  \/ \E v \in Vars, index \in Indexes, T \in KindTypes : GetIndexT(v, index, T)
  \/ \E v \in Vars, T \in Types : AsT(v, T)
  \/ \E v \in Vars, T \in KindTypes : AsArray(v, T)
  \/ \E v, w \in Vars : As(v, w)
  \/ \E v \in Vars, name \in Names, T \in KindTypes : GetNameAsT(v, name, T)

SpecKinds == Init /\ [][Kinds]_vars

\* the programs that set, read and remove the members of one object
Number2 == Val(cJSON_Number, 2, "")
Fields ==
  \/ \E v \in Vars : Construct(v, Val(cJSON_Object, 0, ""))
  \/ \E v \in Vars : Destroy(v)
  \/ \E v, w \in Vars : Copy(v, w)
  \/ \E v \in Vars, name \in Names, sc \in {Number1, Number2, StringX} : SetScalar(v, name, sc)
  \/ \E v \in Vars, name \in Names : RemoveName(v, name)
  \/ \E v \in Vars, name \in Names, T \in {"int", "string"} : GetNameT(v, name, T)

SpecFields == InitMedium /\ [][Fields]_vars

\* the programs that build arrays of numbers and strings and read them back
MaxLen == 2
Elems == {Number1, Number2, StringX}
Lists == UNION {[1..n -> Elems] : n \in 0..MaxLen}
Sequences ==
  \/ \E v \in Vars : Construct(v, Val(cJSON_Array, 0, ""))
  \/ \E v \in Vars, elems \in Lists : ConstructFrom(v, elems)
  \/ \E v \in Vars : Destroy(v)
  \/ \E v, w \in Vars : Copy(v, w)
  \/ \E v \in Vars, sc \in Elems : AddScalar(v, sc)
  \/ \E v \in Vars, index \in 0..MaxIndex : RemoveIndex(v, index)
  \/ \E v \in Vars, T \in {"int", "string"} : AsArray(v, T)

SpecSequences == InitMedium /\ [][Sequences]_vars

\* the programs that set an array as a member of an object and read it there
\* (obj is the first variable; the second is arr, and then what get returns)
Nested ==
  \/ Construct(1, Val(cJSON_Object, 0, ""))
  \/ Construct(MaxVars, Val(cJSON_Array, 0, ""))
  \/ Destroy(MaxVars)
  \/ \E sc \in {Number1, Number2} : AddScalar(MaxVars, sc)
  \/ Set(1, "a", MaxVars)
  \/ GetName(1, "a", MaxVars)
  \/ AsArray(MaxVars, "int")

SpecNested == InitLarge /\ [][Nested]_vars

\* the programs that build a document with the constructors, add and set,
\* print it and parse the text (the document is the first variable)
RoundTrip ==
  \/ \E sc \in Containers : Construct(1, sc)
  \/ \E sc \in {StringX, False0} : ConstructScalar(1, sc)
  \/ Construct(MaxVars, Val(cJSON_Array, 0, ""))
  \/ Destroy(MaxVars)
  \/ \E sc \in {Number1, True1} : AddScalar(1, sc)
  \/ \E name \in Names, sc \in {Number2, StringX} : SetScalar(1, name, sc)
  \/ Add(1, MaxVars)
  \/ Set(1, "a", MaxVars)
  \/ \E fmt \in BOOLEAN : Reparse(1, MaxVars, fmt)

SpecRoundTrip == InitLarge /\ [][RoundTrip]_vars

\* the programs that build, copy and take apart containers and scalars and ask
\* every wrapper for its kind
Typed ==
  \/ \E v \in Vars, sc \in Containers : Construct(v, sc)
  \/ \E v \in Vars : ConstructScalar(v, True1)
  \/ \E v, w \in Vars : Copy(v, w)
  \/ \E v, w \in Vars : Assign(v, w)
  \/ \E v \in Vars : Destroy(v)
  \/ \E v \in Vars : AddScalar(v, Number1)
  \/ \E v \in Vars : SetScalar(v, "a", StringX)
  \/ \E v, y \in Vars : Add(v, y)
  \/ \E v, y \in Vars : Set(v, "a", y)
  \/ \E v \in Vars : RemoveName(v, "a")
  \/ \E v \in Vars : RemoveIndex(v, 0)
  \/ \E v \in Vars : Type(v)

SpecTyped == Init /\ [][Typed]_vars

\* the programs that attach wrappers of containers to containers, themselves included
Attaching ==
  \/ \E v \in Vars, sc \in ArrayOrObject : Construct(v, sc)
  \/ \E v \in Vars : Destroy(v)
  \/ \E v \in Vars : AddScalar(v, Number1)
  \/ \E v, y \in Vars : Add(v, y)
  \/ \E v, y \in Vars : Set(v, "a", y)

SpecAttaching == InitMedium /\ [][Attaching]_vars

\* the programs that parse a document with a nested container, get the nested
\* container and add to it through the wrapper get returned (the document is
\* the first variable, the second is what get returns)
Grafting ==
  \/ \E text \in {<<"[", "[", "]", "]">>, <<"[", "x", "]">>, <<"{", "a", ":", "{", "}", "}">>} : parse(1, text)
  \/ Destroy(1)
  \/ GetIndex(1, 0, MaxVars)
  \/ GetName(1, "a", MaxVars)
  \/ Destroy(MaxVars)
  \/ \E sc \in {Number1, StringX} : AddScalar(MaxVars, sc)
  \/ \E sc \in {Number1, StringX} : SetScalar(MaxVars, "a", sc)
  \/ \E T \in {"int", "string"} : GetIndexT(MaxVars, 0, T)
  \/ \E v \in Vars : print(v)

SpecGrafting == InitMedium /\ [][Grafting]_vars

\* the programs that attach one value wrapper to one container several times
\* and remove the occurrences (the container is the first variable, the value
\* the second)
Repeating ==
  \/ \E sc \in ArrayOrObject : Construct(1, sc)
  \/ Construct(MaxVars, Val(cJSON_Array, 0, ""))
  \/ \E sc \in {Number1, StringX} : ConstructScalar(MaxVars, sc)
  \/ \E v \in Vars : Destroy(v)
  \/ Add(1, MaxVars)
  \/ \E name \in Names : Set(1, name, MaxVars)
  \/ \E index \in 0..MaxIndex : RemoveIndex(1, index)
  \/ \E name \in Names : RemoveName(1, name)
  \/ print(1)

SpecRepeating == InitMedium /\ [][Repeating]_vars

\* the programs that attach values of every kind to a container, get them
\* back and ask for their kind (the container is the first variable; the
\* second is the value, and then what get returns)
Tags ==
  \/ \E sc \in ArrayOrObject : Construct(1, sc)
  \/ \E sc \in Containers : Construct(MaxVars, sc)
  \/ \E sc \in {Number1, StringX, True1, False0} : ConstructScalar(MaxVars, sc)
  \/ \E v \in Vars : Destroy(v)
  \/ \E sc \in {True1, False0} : AddScalar(1, sc)
  \/ Add(1, MaxVars)
  \/ Set(1, "a", MaxVars)
  \/ GetIndex(1, 0, MaxVars)
  \/ GetName(1, "a", MaxVars)
  \/ \E text \in {<<"[", "true", "]">>, <<"{", "a", ":", "false", "}">>} : parse(1, text)
  \/ \E v \in Vars : Type(v)

SpecTags == Init /\ [][Tags]_vars

\* ------------------------------------------------------------ claims
Heap == <<node, holder, oset, var>>
LiveNodes == {n \in Nodes : node[n].st = "live"}
LiveHolders == {h \in Holders : holder[h].live}
Succeeded(op) == res.op = op /\ res.err = "ok"
\* the wrapper's Holder is there and its struct has not been deleted
Sound(w) == holder[w.obj_].live /\ node[holder[w.obj_].o].st = "live"
\* v and w are copies of one wrapper
Shares(v, w) == v # w /\ Declared(v) /\ var[v] = var[w]
\* the structs linked under the wrapper's struct
Linked(w) == SeqToSet(Children(node, holder[w.obj_].o))

\* C1: in every state the programs that construct, copy, assign, add, set,
\* remove and destroy reach (so after every destroy of a copy), the struct of
\* each wrapper still alive is not deleted, its ObjectSet is there, and the
\* struct of every wrapper recorded in that set is not deleted
C1_DestroyKeepsCopies ==
  \A v \in Vars :
    Declared(v) =>
      /\ Sound(var[v])
      /\ var[v].refs_ # NULL => oset[var[v].refs_].live
      /\ \A m \in Members(Here, var[v].refs_) : Sound(m)

\* a copy was destroyed and the other copy still has its three structs
C1_Witness ==
  /\ Succeeded("destroy")
  /\ Cardinality(LiveNodes) = room.nodes
  /\ \E v \in Vars : Declared(v) /\ Members(Here, var[v].refs_) # {} /\ Linked(var[v]) # {}

\* C2: no struct is deleted twice: neither a Holder destructor nor remove
\* passes an already deleted struct to cJSON_Delete
C2_DeletedAtMostOnce == "double_free" \notin ub

\* the wrappers that do not own their struct can all be printed
AliasesValid ==
  \A v \in Vars :
    (Declared(v) /\ ~holder[var[v].obj_].own_) =>
      \A n \in ReadByPrint(node, ObjOf(Here, var[v]), MaxNodes) : node[n].st = "live"

\* C3: destroying wrappers (the object a wrapper was got from, the wrapper
\* given to set) leaves every wrapper got from an object valid: its struct is
\* not deleted and print reads no deleted struct
C3_GotWrapperSurvives ==
  [][(AliasesValid /\ res'.op = "destroy" /\ res'.err = "ok") => AliasesValid']_vars

\* C4: while a wrapper of the parent is alive and the parent's struct is not
\* deleted, the struct that add or set linked by reference is not deleted, for
\* every child linked under the parent
C4_AttachedNodeKept ==
  \A v \in Vars :
    (Declared(v) /\ Sound(var[v])) =>
      \A c \in Linked(var[v]) : node[c].from # NULL => node[node[c].from].st = "live"

\* C5: after a successful remove every record in the ObjectSet of a wrapper
\* is the record of a struct still linked by reference under the wrapper's
\* struct: the record of the removed child is gone
C5_RemoveEvicts ==
  Succeeded("remove") =>
    \A v \in Vars :
      Declared(v) =>
        \A m \in Members(Here, var[v].refs_) :
          \E c \in Linked(var[v]) : node[c].from = holder[m.obj_].o

\* C6: a successful remove leaves no wrapper of the caller, the wrappers got
\* by get included, with a deleted struct
C6_RemoveKeepsWrappers ==
  [][((\A v \in Vars : Declared(v) => Sound(var[v])) /\ res'.op = "remove" /\ res'.err = "ok")
       => (\A v \in Vars : var'[v].obj_ # NULL =>
              node'[holder'[var'[v].obj_].o].st = "live")]_vars

\* C7: parse of a text that is not well formed throws ParseError, leaves the
\* heap as it was (no struct, no Holder and no wrapper more), and no Holder
\* ever holds a null struct
C7_ParseFails ==
  [][\A v \in Vars, text \in Texts :
       (~WellFormed(text) /\ parse(v, text)) =>
          /\ res' = Err("parse", "ParseError")
          /\ UNCHANGED Heap
          /\ \A h \in Holders : holder'[h].live => holder'[h].o # NULL]_vars

\* a parse failed while the caller held a document
C7_Witness ==
  /\ res = Err("parse", "ParseError")
  /\ \E v \in Vars : Declared(v) /\ Linked(var[v]) # {}

\* C8: destroying a wrapper that does not own its struct deletes no struct
C8_NavigationNonOwning ==
  [][\A v \in Vars :
       (Declared(v) /\ ~holder[var[v].obj_].own_ /\ res'.op = "destroy" /\ res'.err = "ok"
          /\ var'[v].obj_ = NULL)
       => Cardinality({n \in Nodes : node'[n].st = "live"}) = Cardinality(LiveNodes)]_vars

\* C9: a copy construction leaves two wrappers with the same Holder and the
\* same ObjectSet and makes no struct and no Holder; an assignment leaves two
\* such wrappers (or, assigning a wrapper to itself, changes nothing); and two
\* copies stay copies, so have the same children and the same records, over
\* every add, set and remove through either
C9_CopiesShare ==
  [][/\ (res'.op = "copy" /\ res'.err = "ok") =>
          /\ \E v, w \in Vars : v # w /\ var[w].obj_ = NULL /\ var'[w].obj_ # NULL /\ var'[v] = var'[w]
          /\ Cardinality({n \in Nodes : node'[n].st = "live"}) = Cardinality(LiveNodes)
          /\ Cardinality({h \in Holders : holder'[h].live}) = Cardinality(LiveHolders)
     /\ (res'.op = "assign" /\ res'.err = "ok") =>
          /\ (\E v, w \in Vars : v # w /\ var'[v].obj_ # NULL /\ var'[v] = var'[w]) \/ UNCHANGED Heap
          /\ Cardinality({n \in Nodes : node'[n].st = "live"}) <= Cardinality(LiveNodes)
     /\ \A v, w \in Vars :
          (Shares(v, w) /\ res'.op \in {"add", "set", "remove"}) => var'[v] = var'[w]]_vars

\* an add, a set or a remove was made through one of two copies
C9_Witness ==
  /\ res.op \in {"add", "set", "remove"} /\ res.err = "ok"
  /\ \E v, w \in Vars : Shares(v, w) /\ Linked(var[v]) # {}

\* C10: a call that throws leaves every struct, every Holder, every ObjectSet
\* and every wrapper as it was
C10_FailureChangesNothing ==
  [][res'.err \notin {"ok", "undefined"} => UNCHANGED Heap]_vars

\* a remove of an absent child failed on a container that has children
C10_Witness ==
  /\ res = Err("remove", "NoSuchItem")
  /\ \E v \in Vars : Declared(v) /\ Linked(var[v]) # {}

\* the kind of the wrapper's struct, as type() gives it
KindOf(v) == TypeOf(node, ObjOf(Here, var[v]))
\* the step is a call of a named operation, of an indexed operation, on x
NamedCall(v) ==
  \E name \in Names :
    \/ res'.op = "get" /\ \E w \in Vars : GetName(v, name, w)
    \/ res'.op = "get" /\ \E T \in Types : GetNameT(v, name, T)
    \/ res'.op = "set" /\ \E y \in Vars : Set(v, name, y)
    \/ res'.op = "set" /\ \E sc \in Scalars \cup {True1, False0} : SetScalar(v, name, sc)
    \/ res'.op = "remove" /\ RemoveName(v, name)
IndexedCall(v) ==
  \/ res'.op = "get" /\ \E index \in Indexes, w \in Vars : GetIndex(v, index, w)
  \/ res'.op = "get" /\ \E index \in Indexes, T \in Types : GetIndexT(v, index, T)
  \/ res'.op = "add" /\ \E y \in Vars : Add(v, y)
  \/ res'.op = "add" /\ \E sc \in Scalars \cup {True1, False0} : AddScalar(v, sc)
  \/ res'.op = "remove" /\ \E index \in Indexes : RemoveIndex(v, index)
  \/ res'.op = "asArray" /\ \E T \in Types : AsArray(v, T)

\* C11: on a wrapper whose struct is not deleted, get(name), set(name, v) and
\* remove(name) throw NotAnObject whenever the kind is not Object, and
\* get(index), add(v), remove(index) and asArray throw NotAnArray whenever the
\* kind is not Array (so never NoSuchItem); on the right kind they throw neither
C11_KindCheckedFirst ==
  [][\A v \in Vars :
       (res'.op \in {"get", "set", "add", "remove", "asArray"} /\ Declared(v) /\ Sound(var[v])) =>
         /\ (KindOf(v) # "Object" /\ NamedCall(v)) => res'.err = "NotAnObject"
         /\ (KindOf(v) # "Array" /\ IndexedCall(v)) => res'.err = "NotAnArray"
         /\ (KindOf(v) = "Object" /\ NamedCall(v)) => res'.err # "NotAnObject"
         /\ (KindOf(v) = "Array" /\ IndexedCall(v)) => res'.err # "NotAnArray"]_vars

\* a named call failed on an array that has a child, an indexed call on an
\* object that has a child
C11_Witness ==
  \E v \in Vars :
    /\ Declared(v) /\ Sound(var[v]) /\ Linked(var[v]) # {}
    /\ \/ res.err = "NotAnObject" /\ KindOf(v) = "Array"
       \/ res.err = "NotAnArray" /\ KindOf(v) = "Object"

Readable(v) ==
  /\ Declared(v)
  /\ \A n \in ReadByPrint(node, ObjOf(Here, var[v]), MaxNodes) : node[n].st = "live"

\* the kind as<T> asks for
Required(T) ==
  IF T \in {"int", "int64", "double"} THEN "Number" ELSE IF T = "bool" THEN "Bool" ELSE "String"

\* C13: on a wrapper whose struct and string are not deleted, as<T>() throws TypeMismatch
\* exactly when the kind is not the one T asks for (Number for int, int64 and
\* double, Bool for bool, String for string) and returns otherwise;
\* as<JSONObject>() returns for every kind
C13_TypeMismatchExact ==
  [][\A v \in Vars :
       (res'.op = "as" /\ Readable(v)) =>
         /\ \A T \in Types :
              AsT(v, T) => res'.err = (IF KindOf(v) = Required(T) THEN "ok" ELSE "TypeMismatch")
         /\ \A w \in Vars : As(v, w) => res'.err = "ok"]_vars

\* as<T>() of a false Bool, of a String and of an Array was called
C13_Witness ==
  /\ res.op = "as"
  /\ \E v \in Vars :
       /\ Declared(v) /\ Sound(var[v])
       /\ \/ res.err = "ok" /\ res.val = <<Value(0, "")>> /\ node[ObjOf(Here, var[v])].type = cJSON_False
          \/ res.err = "TypeMismatch" /\ KindOf(v) \in {"String", "Array"}

\* C14: for every wrapper with nothing deleted under it, every name and every
\* T, x.get<T>(name) and x.get<JSONObject>(name).as<T>() end the same way:
\* the same value returned or the same error thrown, and the heap as it was
C14_GetIsGetThenAs ==
  [][\A v \in Vars :
       (res'.op \in {"get", "as"} /\ Readable(v)) =>
         \A name \in Names, T \in Types :
           LET direct == get_name(node, ObjOf(Here, var[v]), name, T)
           IN /\ (res'.op = "get" /\ GetNameT(v, name, T)) =>
                   res'.err = direct.err /\ res'.val = direct.val /\ UNCHANGED Heap
              /\ GetNameAsT(v, name, T) =>
                   res'.err = direct.err /\ res'.val = direct.val /\ UNCHANGED Heap]_vars

\* get(name).as<T>() returned the string of a member, threw for a member of
\* another kind, and threw on an array that has a child
C14_Witness ==
  /\ res.op \in {"get", "as"}
  /\ \E v \in Vars :
       /\ Readable(v) /\ Linked(var[v]) # {}
       /\ \/ res.err = "ok" /\ res.val = <<Value(0, "x")>>
          \/ res.err = "TypeMismatch" /\ KindOf(v) = "Object"
          \/ res.err = "NotAnObject" /\ KindOf(v) = "Array"

\* the type and the value of a scalar given to add or set
TypeFor(sc) ==
  IF sc.t = cJSON_Number THEN "int" ELSE IF sc.t = cJSON_String THEN "string" ELSE "bool"
ValueOf(sc) ==
  IF sc.t = cJSON_Number THEN Value(sc.i, "")
  ELSE IF sc.t = cJSON_String THEN Value(0, sc.s)
  ELSE Value(IF sc.t = cJSON_True THEN 1 ELSE 0, "")
\* the struct of the caller's variable w after the step
ObjOfNext(w) == holder'[var'[w].obj_].o

\* C15: after x.set(name, v) returns on an Object with nothing deleted under
\* it, get<T>(name) through every wrapper of that object returns v, whatever
\* members the object had (one called name included), and get<T> of every
\* other name ends as it did before the call
C15_SetThenGet ==
  [][\A v \in Vars :
       (res'.op = "set" /\ res'.err = "ok" /\ Readable(v)) =>
         \A name \in Names, sc \in {Number1, Number2, StringX} :
           SetScalar(v, name, sc) =>
             \A w \in Vars :
               (var'[w].obj_ # NULL /\ ObjOfNext(w) = ObjOfNext(v)) =>
                 /\ get_name(node', ObjOfNext(w), name, TypeFor(sc))
                      = [err |-> "ok", val |-> <<ValueOf(sc)>>]
                 /\ \A other \in Names \ {name}, T \in Types :
                      get_name(node', ObjOfNext(w), other, T)
                        = get_name(node, ObjOf(Here, var[v]), other, T)]_vars

\* the values asArray<T>() returns for the elements it was built from
ValuesOf(elems) == [i \in 1..Len(elems) |-> ValueOf(elems[i])]

\* C16: on an Array with nothing deleted under it, if asArray<T>() returns S
\* then after add(v), v of type T, it returns S followed by v; an array
\* constructed from a sequence of values of type T returns that sequence, in
\* its order and of its length
C16_AddAppends ==
  [][\A v \in Vars :
       /\ (res'.op = "add" /\ res'.err = "ok" /\ Readable(v)) =>
            \A sc \in Elems :
              LET before == asArray(node, ObjOf(Here, var[v]), TypeFor(sc))
              IN (AddScalar(v, sc) /\ before.err = "ok") =>
                   \A w \in Vars :
                     (var'[w].obj_ # NULL /\ ObjOfNext(w) = ObjOfNext(v)) =>
                       asArray(node', ObjOfNext(w), TypeFor(sc))
                         = [err |-> "ok", val |-> Append(before.val, ValueOf(sc))]
       /\ (res'.op = "construct" /\ res'.err = "ok" /\ ~Declared(v)) =>
            \A elems \in Lists :
              (ConstructFrom(v, elems) /\ \A i \in 1..Len(elems) : TypeFor(elems[i]) = TypeFor(elems[1]))
              => \A T \in {"int", "string"} :
                   (elems = <<>> \/ T = TypeFor(elems[1])) =>
                     asArray(node', ObjOfNext(v), T) = [err |-> "ok", val |-> ValuesOf(elems)]]_vars

\* asArray<int>() returned 1, 2 for an array that 1 and then 2 were added to
C16_Witness ==
  /\ res = Returned("asArray", <<Value(1, ""), Value(2, "")>>)
  /\ \E v \in Vars : Readable(v) /\ Cardinality(Linked(var[v])) = 2

\* C17: after x.remove(name) returns on an Object with nothing deleted under
\* it, get<T>(name) throws NoSuchItem for every T, and get<T> of every other
\* name ends as it did before the call
C17_RemoveThenGet ==
  [][\A v \in Vars :
       (res'.op = "remove" /\ res'.err = "ok" /\ Readable(v)) =>
         \A name \in Names :
           RemoveName(v, name) =>
             \A T \in Types :
               /\ get_name(node', ObjOfNext(v), name, T).err = "NoSuchItem"
               /\ \A other \in Names \ {name} :
                    get_name(node', ObjOfNext(v), other, T)
                      = get_name(node, ObjOf(Here, var[v]), other, T)]_vars

\* C18: after obj.set(name, arr) returns, arr an Array whose asArray<T>() is
\* S, nothing deleted under obj or arr: obj.get(name) is of kind Array and
\* obj.get(name).asArray<T>() returns S
C18_SetArrayThenGet ==
  [][\A v, y \in Vars :
       (res'.op = "set" /\ res'.err = "ok" /\ Readable(v) /\ Readable(y) /\ KindOf(y) = "Array") =>
         \A name \in Names, T \in Types :
           LET S == asArray(node, ObjOf(Here, var[y]), T)
               item == cJSON_GetObjectItem(node', ObjOfNext(v), name)
           IN (Set(v, name, y) /\ S.err = "ok") =>
                /\ item # NULL
                /\ TypeOf(node', item) = "Array"
                /\ asArray(node', item, T) = S]_vars

\* the tree under a struct: kinds, scalar values, names and order
RECURSIVE Shape(_, _, _)
Shape(nd, c, fuel) ==
  LET t == Low8(nd[c].type)
      cs == IF t \in {cJSON_Array, cJSON_Object} /\ fuel > 0 THEN Children(nd, c) ELSE <<>>
  IN Tree(t, IF t = cJSON_Number THEN nd[c].valueint ELSE 0,
          IF t = cJSON_String THEN nd[c].chars ELSE "",
          [k \in 1..Len(cs) |-> nd[cs[k]].string],
          [k \in 1..Len(cs) |-> Shape(nd, cs[k], fuel - 1)])

RecordsLinked(v) ==
  \A m \in Members(Here, var[v].refs_) :
    \E c \in Linked(var[v]) : node[c].from = holder[m.obj_].o

\* C20: after x.set(name, v2) returns on an Object that had a member called
\* name set to v1 (nothing deleted under it, every record in its ObjectSet
\* that of a linked value): one member is called name, so v1 is no longer
\* linked, and the ObjectSet has as many records as before, so v1's record
\* has gone as v2's came
C20_ResetReleasesOld ==
  [][\A v \in Vars :
       (res'.op = "set" /\ res'.err = "ok" /\ Readable(v) /\ RecordsLinked(v)) =>
         \A name \in Names, sc \in {Number1, Number2, StringX} :
           (SetScalar(v, name, sc) /\ cJSON_GetObjectItem(node, ObjOf(Here, var[v]), name) # NULL) =>
             /\ Cardinality({c \in SeqToSet(Children(node', ObjOfNext(v))) : node'[c].string = name}) = 1
             /\ Len(oset'[var'[v].refs_].elems) = Len(oset[var[v].refs_].elems)]_vars

\* the kinds of the wrappers recorded in the ObjectSet of x, in the order of insertion
KindsOfMembers(v) ==
  IF var[v].refs_ = NULL THEN <<>>
  ELSE [i \in 1..Len(oset[var[v].refs_].elems) |->
          TypeOf(node, holder[oset[var[v].refs_].elems[i].obj_].o)]

\* C21: the kind of a struct never changes: over every step of the programs
\* that construct, copy, assign, add, set, remove, destroy and call type(), a
\* wrapper that is not assigned to has the kind it had, a copy and the target
\* of an assignment have the kind of their source, the wrappers recorded in a
\* variable's ObjectSet keep their kinds, and type() returns that kind and
\* changes nothing
C21_KindNeverChanges ==
  [][~halted' =>
       /\ \A v \in Vars :
            (Declared(v) /\ var'[v].obj_ # NULL /\ res'.op # "assign")
              => TypeOf(node', ObjOfNext(v)) = KindOf(v)
       /\ \A v \in Vars :
            (Declared(v) /\ var'[v].obj_ # NULL /\ res'.op \notin {"assign", "remove"}
               /\ res'.err = "ok")
              => \A i \in 1..Len(KindsOfMembers(v)) : KindsOfMembers(v)'[i] = KindsOfMembers(v)[i]
       /\ \A v, w \in Vars :
            (res'.op \in {"copy", "assign"} /\ (Copy(v, w) \/ Assign(v, w)))
              => TypeOf(node', ObjOfNext(w)) = KindOf(v)
       /\ \A v \in Vars :
            (res'.op = "type" /\ Type(v))
              => res'.val = <<Value(0, KindOf(v))>> /\ UNCHANGED Heap]_vars

\* type() was called through one of two copies of a wrapper of a container
\* that has a member
C21_Witness ==
  /\ Succeeded("type")
  /\ \E v, w \in Vars : Shares(v, w) /\ Linked(var[v]) # {} /\ res.val = <<Value(0, KindOf(v))>>

\* C22: once the caller holds no wrapper, nothing the library allocated is
\* left: no struct that is not deleted, no Holder and no ObjectSet
C22_NothingLeftBehind ==
  (~halted /\ \A v \in Vars : ~Declared(v)) =>
    /\ LiveNodes = {}
    /\ LiveHolders = {}
    /\ \A r \in Sets : ~oset[r].live

\* the ObjectSets the members of the sets rs share, and those their members share
RECURSIVE KeptAlive(_)
KeptAlive(rs) ==
  LET more == rs \cup (UNION {{m.refs_ : m \in Members(Here, r)} : r \in rs} \ {NULL})
  IN IF more = rs THEN rs ELSE KeptAlive(more)

\* the structs linked under the structs cs, at any depth
RECURSIVE Under(_)
Under(cs) ==
  LET more == cs \cup UNION {SeqToSet(Children(node, c)) : c \in cs}
  IN IF more = cs THEN cs ELSE Under(more)

\* C23: add and set never make a cycle: no struct is linked under itself at
\* any depth, and no ObjectSet holds, directly or through the ObjectSets of its
\* members, a wrapper that shares that ObjectSet
C23_NoCycle ==
  ~halted =>
    /\ \A c \in LiveNodes : c \notin Under(SeqToSet(Children(node, c)))
    /\ \A r \in Sets :
         oset[r].live => r \notin KeptAlive({m.refs_ : m \in Members(Here, r)} \ {NULL})

\* C24: while a wrapper that owns the root of a document is alive, every value
\* that add or set linked by reference under the root, at any depth, so also
\* through a wrapper get returned, is not deleted, whether or not the wrapper
\* used for the add is still alive
C24_GraftedValueKept ==
  \A v \in Vars :
    (Declared(v) /\ holder[var[v].obj_].own_ /\ Sound(var[v])) =>
      \A c \in Under(Linked(var[v])) :
        (node[c].st = "live" /\ node[c].from # NULL) => node[node[c].from].st = "live"

\* every reference linked under the struct of x was made from a struct that is
\* not deleted and that a record in the ObjectSet of x holds
OccurrencesKept(v) ==
  \A c \in Linked(var[v]) :
    node[c].from # NULL =>
      /\ node[node[c].from].st = "live"
      /\ \E m \in Members(Here, var[v].refs_) : holder[m.obj_].o = node[c].from

\* C25: when a value wrapper was attached to a container more than once (added
\* twice, or set under two names), a successful remove of one occurrence
\* leaves every other occurrence linked to a struct that is not deleted and
\* that the container's ObjectSet still holds
C25_OtherOccurrenceKept ==
  [][(res'.op = "remove" /\ res'.err = "ok") =>
       \A v \in Vars : var'[v].obj_ # NULL => OccurrencesKept(v)']_vars

\* one of two occurrences of a value was removed: the container has one
\* reference left and its ObjectSet the one record of that value
C25_Witness ==
  /\ Succeeded("remove")
  /\ Declared(1)
  /\ Cardinality(Linked(var[1])) = 1
  /\ Len(oset[var[1].refs_].elems) = 1
  /\ OccurrencesKept(1)

\* the kind that goes with a tag of cJSON
KindOfTag(tag) ==
  CASE tag \in {cJSON_False, cJSON_True} -> "Bool"
    [] tag = cJSON_NULL -> "Null"
    [] tag = cJSON_Number -> "Number"
    [] tag = cJSON_String -> "String"
    [] tag = cJSON_Array -> "Array"
    [] tag = cJSON_Object -> "Object"
    [] OTHER -> "none"

\* C26: type() through a wrapper whose struct is not deleted reads the table
\* inside its seven entries and returns the kind of the low 8 bits of the tag:
\* Bool for both boolean tags, and for a reference that add or set linked
\* (reached by get) the kind of the value it was made from
C26_TypeFromLowBits ==
  [][\A v \in Vars :
       (res'.op = "type" /\ Declared(v) /\ Sound(var[v]) /\ Type(v)) =>
          /\ ~halted'
          /\ node[ObjOf(Here, var[v])].type % 256 \in 0..6
          /\ res'.val = <<Value(0, KindOfTag(node[ObjOf(Here, var[v])].type % 256))>>
          /\ LET from == node[ObjOf(Here, var[v])].from
             IN (from # NULL /\ node[from].st = "live")
                  => res'.val = <<Value(0, KindOfTag(node[from].type % 256))>>]_vars

\* type() returned Bool through a wrapper get returned of a false that was
\* attached by reference
C26_Witness ==
  /\ Succeeded("type")
  /\ res.val = <<Value(0, "Bool")>>
  /\ \E v \in Vars :
       /\ Declared(v) /\ Sound(var[v])
       /\ node[ObjOf(Here, var[v])].type = cJSON_IsReference + cJSON_False
====
